---- MODULE Spec2Model ----
(***************************************************************************)
(* State-machine model of src/ai_storybook.py: the StoryEngine (node       *)
(* mapping, current_id, StoryState with inventory and flags), its          *)
(* operations step / rewrite_ending / restart_with, and the seed           *)
(* collection prompt_for_seeds.                                            *)
(*                                                                         *)
(* Python str values that the code trims, splits or case-folds are         *)
(* modelled as sequences of one-character strings, so that strip, lower,   *)
(* upper, split and startswith are computed and not assumed.  Node ids,    *)
(* flag keys and inventory items are only ever compared for equality and   *)
(* are plain strings.                                                      *)
(***************************************************************************)
EXTENDS Integers, Sequences, FiniteSets, TLC

\* ------------------------------------------------------------------------
\* Bounds of the model
\* ------------------------------------------------------------------------

\* largest value of flag 'steps' the model explores
MaxSteps == 5

\* largest value of flag 'secret' the model explores
MaxSecret == 1

\* ------------------------------------------------------------------------
\* Python str operations on character sequences
\* ------------------------------------------------------------------------

LowerAlpha ==
    <<"a","b","c","d","e","f","g","h","i","j","k","l","m",
      "n","o","p","q","r","s","t","u","v","w","x","y","z">>

UpperAlpha ==
    <<"A","B","C","D","E","F","G","H","I","J","K","L","M",
      "N","O","P","Q","R","S","T","U","V","W","X","Y","Z">>

Whitespace == {" ", "\t"}

AlphaIndex(alpha, c) == CHOOSE i \in 1..Len(alpha) : alpha[i] = c

LowerChar(c) ==
    IF \E i \in 1..Len(UpperAlpha) : UpperAlpha[i] = c
    THEN LowerAlpha[AlphaIndex(UpperAlpha, c)]
    ELSE c

UpperChar(c) ==
    IF \E i \in 1..Len(LowerAlpha) : LowerAlpha[i] = c
    THEN UpperAlpha[AlphaIndex(LowerAlpha, c)]
    ELSE c

\* str.lower()
Lower(s) == [i \in 1..Len(s) |-> LowerChar(s[i])]

\* str.upper()
Upper(s) == [i \in 1..Len(s) |-> UpperChar(s[i])]

RECURSIVE LStrip(_)
LStrip(s) ==
    IF s = <<>> THEN s
    ELSE IF Head(s) \in Whitespace THEN LStrip(Tail(s))
    ELSE s

RECURSIVE RStrip(_)
RStrip(s) ==
    IF s = <<>> THEN s
    ELSE IF s[Len(s)] \in Whitespace THEN RStrip(SubSeq(s, 1, Len(s) - 1))
    ELSE s

\* str.strip()
Strip(s) == RStrip(LStrip(s))

\* str.startswith(prefix)
StartsWith(s, prefix) ==
    /\ Len(prefix) <= Len(s)
    /\ SubSeq(s, 1, Len(prefix)) = prefix

\* s[:n]
Prefix(s, n) == SubSeq(s, 1, IF n < Len(s) THEN n ELSE Len(s))

RECURSIVE SplitFrom(_, _, _)
SplitFrom(s, word, parts) ==
    IF s = <<>>
    THEN IF word = <<>> THEN parts ELSE Append(parts, word)
    ELSE IF Head(s) \in Whitespace
         THEN SplitFrom(Tail(s), <<>>,
                        IF word = <<>> THEN parts ELSE Append(parts, word))
         ELSE SplitFrom(Tail(s), Append(word, Head(s)), parts)

\* str.split() with no separator: the whitespace-separated words
Split(s) == SplitFrom(s, <<>>, <<>>)

\* dict.get(key, default) and d[key] = value on a mapping
Get(d, k, default) == IF k \in DOMAIN d THEN d[k] ELSE default

Put(d, k, v) == [x \in (DOMAIN d) \cup {k} |-> IF x = k THEN v ELSE d[x]]

EmptyDict == [x \in {} |-> 0]


\* ------------------------------------------------------------------------
\* Literals of the program
\* ------------------------------------------------------------------------

\* StoryEngine.SECRET_INPUT
SECRET_INPUT == <<"w","h","i","s","p","e","r">>

KeyA == <<"A">>

KeyB == <<"B">>

KeyC == <<"C">>

StyleHopeful == <<"h","o","p","e","f","u","l">>

StyleTragic == <<"t","r","a","g","i","c">>

StyleTwist == <<"t","w","i","s","t">>

GenreFantasy == <<"f","a","n","t","a","s","y">>

GenreSciFi == <<"s","c","i","-","f","i">>

GenreMystery == <<"m","y","s","t","e","r","y">>

\* the keys of the motifs dict of _world_description, in insertion order
MotifKeys == <<GenreFantasy, GenreSciFi, GenreMystery>>

\* the number of phrases under every key of motifs
MotifCount == 3

DefaultGenre == GenreFantasy

DefaultTone == <<"w","h","i","m","s","i","c","a","l">>

DefaultProtagonist == <<"A","r","i">>

DefaultCompanion == <<"R","o","o","k">>

\* 2**31 - 1 of prompt_for_seeds
SeedModulus == 2147483647

\* the ten ids _build_nodes stores
NodeIds ==
    {"opening", "omen", "study_runes", "ally", "onward", "hidden_path",
     "climax", "ending_hopeful", "ending_tragic", "ending_twist"}

\* the name of a normalised style as it appears in f"ending_{style}" and tags
StyleStr(style) ==
    IF style = StyleHopeful THEN "hopeful"
    ELSE IF style = StyleTragic THEN "tragic"
    ELSE IF style = StyleTwist THEN "twist"
    ELSE "other"

EndingId(style) ==
    IF style = StyleHopeful THEN "ending_hopeful"
    ELSE IF style = StyleTragic THEN "ending_tragic"
    ELSE IF style = StyleTwist THEN "ending_twist"
    ELSE "ending_other"

\* ------------------------------------------------------------------------
\* StoryState and seed collection
\* ------------------------------------------------------------------------

StoryState(genre, tone, protagonist, companion, world_seed, inventory, flags) ==
    [genre |-> genre, tone |-> tone, protagonist |-> protagonist,
     companion |-> companion, world_seed |-> world_seed,
     inventory |-> inventory, flags |-> flags]

CharCode(c) ==
    IF \E i \in 1..Len(LowerAlpha) : LowerAlpha[i] = c
    THEN AlphaIndex(LowerAlpha, c)
    ELSE IF \E i \in 1..Len(UpperAlpha) : UpperAlpha[i] = c
         THEN 26 + AlphaIndex(UpperAlpha, c)
         ELSE 53

RECURSIVE StrHashFrom(_, _)
StrHashFrom(h, s) ==
    IF s = <<>> THEN h
    ELSE StrHashFrom(((h * 31) + CharCode(Head(s))) % 65521, Tail(s))

\* hash(str): a function of the text and of the per-process hash salt,
\* of either sign (the digest itself is abstracted to a polynomial hash)
StrHash(salt, s) ==
    LET h == StrHashFrom(salt, s)
    IN  IF (h + salt) % 2 = 0 THEN h ELSE 0 - h

Abs(n) == IF n < 0 THEN 0 - n ELSE n

OrDefault(s, default) == IF s = <<>> THEN default ELSE s

\* prompt_for_seeds, for the four lines the user answers
prompt_for_seeds(salt, answers) ==
    LET genre       == OrDefault(Strip(answers[1]), DefaultGenre)
        tone        == OrDefault(Strip(answers[2]), DefaultTone)
        protagonist == OrDefault(Strip(answers[3]), DefaultProtagonist)
        companion   == OrDefault(Strip(answers[4]), DefaultCompanion)
        seed_str    == genre \o <<"|">> \o tone \o <<"|">> \o protagonist
                       \o <<"|">> \o companion
        world_seed  == Abs(StrHash(salt, seed_str)) % SeedModulus
    IN  StoryState(genre, tone, protagonist, companion, world_seed,
                   <<>>, EmptyDict)

\* ------------------------------------------------------------------------
\* StoryGenerator (the content provider)
\* ------------------------------------------------------------------------

StoryNode(node_id, text, choices, is_ending, tags) ==
    [node_id |-> node_id, text |-> text, choices |-> choices,
     is_ending |-> is_ending, tags |-> tags]

Choices(a, b, c) ==
    [k \in {KeyA, KeyB, KeyC} |->
        IF k = KeyA THEN a ELSE IF k = KeyB THEN b ELSE c]

NoChoices == [k \in {} |-> <<"", "">>]

\* the draw-th rand.choice over n items of random.Random(seed): a function
\* of the seed and of the position in the draw sequence
RandChoice(seed, draw, n) == 1 + ((((seed % 1009) * 7) + (draw * 5)) % n)

RECURSIVE FirstWithPrefix(_, _, _)
FirstWithPrefix(keys, i, p) ==
    IF i > Len(keys) THEN keys[1]
    ELSE IF StartsWith(keys[i], p) THEN keys[i]
    ELSE FirstWithPrefix(keys, i + 1, p)

_closest_key(key, keys) ==
    LET k == Lower(Strip(key))
    IN  IF \E i \in 1..Len(keys) : keys[i] = k THEN k
        ELSE FirstWithPrefix(keys, 1, Prefix(k, 3))

_world_description(st, draw) ==
    LET key == _closest_key(st.genre, MotifKeys)
    IN  [motif |-> key, pick |-> RandChoice(st.world_seed, draw, MotifCount)]

generate_opening(st) ==
    StoryNode("opening",
        [tpl |-> "opening", tone |-> st.tone, genre |-> st.genre,
         protagonist |-> st.protagonist, companion |-> st.companion,
         world |-> _world_description(st, 1),
         hook |-> RandChoice(st.world_seed, 2, 4)],
        Choices(<<"Investigate the omen", "omen">>,
                <<"Seek an ally in the nearest settlement", "ally">>,
                <<"Ignore it and press onward", "onward">>),
        FALSE, <<>>)

generate_omen(st) ==
    StoryNode("omen",
        [tpl |-> "omen", companion |-> st.companion,
         clue |-> RandChoice(st.world_seed, 3, 4)],
        Choices(<<"Study the runes closely", "study_runes">>,
                <<"Mark the site and retreat for now", "retreat">>,
                <<"Touch the brightest rune", "touch_rune">>),
        FALSE, <<>>)

generate_study_runes(st) ==
    StoryNode("study_runes",
        [tpl |-> "study_runes", protagonist |-> st.protagonist,
         companion |-> st.companion],
        Choices(<<"Follow the glowing path", "hidden_path">>,
                <<"Copy the runes for later study", "onward">>,
                <<"Erase one and see what happens", "climax">>),
        FALSE, <<>>)

generate_ally(st) ==
    StoryNode("ally",
        [tpl |-> "ally",
         ally_name |-> <<RandChoice(st.world_seed, 4, 7),
                         RandChoice(st.world_seed, 5, 6)>>],
        Choices(<<"Barter a keepsake for their map", "get_map">>,
                <<"Earn trust by helping with a local problem", "help_local">>,
                <<"Refuse and chart your own route", "onward">>),
        FALSE, <<>>)

generate_onward(st) ==
    StoryNode("onward",
        [tpl |-> "onward", terrain |-> RandChoice(st.world_seed, 6, 4)],
        Choices(<<"Search the area for a fitting object", "search_area">>,
                <<"Force your way through the arch", "force_arch">>,
                <<"Set camp and wait for signs", "make_camp">>),
        FALSE, <<>>)

generate_hidden_path(st) ==
    StoryNode("hidden_path",
        [tpl |-> "hidden_path"],
        Choices(<<"Enter the hidden passage", "hidden_depths">>,
                <<"Mark it and return later", "return_later">>,
                <<"Call out into the dark", "call_dark">>),
        FALSE, <<"hidden">>)

generate_climax(st) ==
    StoryNode("climax",
        [tpl |-> "climax", protagonist |-> st.protagonist,
         force |-> RandChoice(st.world_seed, 7, 4)],
        Choices(<<"Appeal with empathy", "ending_hopeful">>,
                <<"Outwit with a bold gambit", "ending_twist">>,
                <<"Defy at any cost", "ending_tragic">>),
        FALSE, <<>>)

_ending_fragment(style) ==
    IF style = StyleHopeful THEN "hopeful"
    ELSE IF style = StyleTragic THEN "tragic"
    ELSE "twist"

generate_ending(st, style) ==
    StoryNode(EndingId(style),
        [tpl |-> "ending", protagonist |-> st.protagonist,
         companion |-> st.companion, fragment |-> _ending_fragment(style),
         style |-> StyleStr(style)],
        NoChoices, TRUE, <<"ending", StyleStr(style)>>)

\* ------------------------------------------------------------------------
\* StoryEngine
\* ------------------------------------------------------------------------

_build_nodes(st) ==
    [id \in NodeIds |->
        CASE id = "opening"        -> generate_opening(st)
          [] id = "omen"           -> generate_omen(st)
          [] id = "study_runes"    -> generate_study_runes(st)
          [] id = "ally"           -> generate_ally(st)
          [] id = "onward"         -> generate_onward(st)
          [] id = "hidden_path"    -> generate_hidden_path(st)
          [] id = "climax"         -> generate_climax(st)
          [] id = "ending_hopeful" -> generate_ending(st, StyleHopeful)
          [] id = "ending_tragic"  -> generate_ending(st, StyleTragic)
          [] id = "ending_twist"   -> generate_ending(st, StyleTwist)]


Engine(st, nds, cur) == [state |-> st, nodes |-> nds, current_id |-> cur]

\* what step hands back: a node, None, or the SystemExit it lets escape
RetNode(node) == [kind |-> "node", node |-> node]

RetNone == [kind |-> "None"]

RetExit == [kind |-> "SystemExit"]

\* StoryEngine.__init__
NewEngine(st) == Engine(st, _build_nodes(st), "opening")

\* restart_with carrying the old flags over into the new state
restart_keeps_flags(eng, new_state) ==
    LET st == [new_state EXCEPT !.flags =
                  [k \in (DOMAIN eng.state.flags) \cup (DOMAIN new_state.flags) |->
                      IF k \in DOMAIN new_state.flags THEN new_state.flags[k]
                      ELSE eng.state.flags[k]]]
    IN  Engine(st, _build_nodes(st), "opening")

restart_with(eng, new_state) ==
    Engine(new_state, _build_nodes(new_state), "opening")

\* _apply_side_effects with the stone key handed out at (onward, B) too
side_effects_key_on_force(st, node_id, choice) ==
    LET s1 == IF node_id = "ally" /\ choice = KeyA
              THEN [st EXCEPT !.inventory = Append(@, "cryptic map"),
                              !.flags = Put(@, "map", 1)]
              ELSE st
        s2 == IF node_id = "onward" /\ choice \in {KeyA, KeyB}
              THEN [s1 EXCEPT !.inventory = Append(@, "stone key"),
                              !.flags = Put(@, "key", 1)]
              ELSE s1
        s3 == IF node_id = "omen" /\ choice = KeyC
              THEN [s2 EXCEPT !.flags = Put(@, "reckless", 1)]
              ELSE s2
        s4 == IF node_id = "onward" /\ choice = KeyB
              THEN [s3 EXCEPT !.flags = Put(@, "wounded", 1)]
              ELSE s3
    IN  s4

_apply_side_effects(st, node_id, choice) ==
    LET s1 == IF node_id = "ally" /\ choice = KeyA
              THEN [st EXCEPT !.inventory = Append(@, "cryptic map"),
                              !.flags = Put(@, "map", 1)]
              ELSE st
        s2 == IF node_id = "onward" /\ choice = KeyA
              THEN [s1 EXCEPT !.inventory = Append(@, "stone key"),
                              !.flags = Put(@, "key", 1)]
              ELSE s1
        s3 == IF node_id = "omen" /\ choice = KeyC
              THEN [s2 EXCEPT !.flags = Put(@, "reckless", 1)]
              ELSE s2
        s4 == IF node_id = "onward" /\ choice = KeyB
              THEN [s3 EXCEPT !.flags = Put(@, "wounded", 1)]
              ELSE s3
    IN  s4

InTags(tag, tags) == \E i \in 1..Len(tags) : tags[i] = tag

\* _maybe_funnel_to_climax falling back to the opening for a missing node
funnel_fallback_to_opening(eng) ==
    LET st == [eng.state EXCEPT
                  !.flags = Put(@, "steps", Get(@, "steps", 0) + 1)]
        e1 == [eng EXCEPT !.state = st]
    IN  IF eng.current_id \notin DOMAIN eng.nodes
        THEN [eng |-> [e1 EXCEPT !.current_id = "opening"],
              ret |-> RetNode(eng.nodes["opening"])]
        ELSE LET node == eng.nodes[eng.current_id]
             IN  IF /\ ~node.is_ending
                    /\ ~InTags("hidden", node.tags)
                    /\ Get(st.flags, "steps", 0) >= 4
                    /\ \E k \in DOMAIN st.flags : k # "steps"
                 THEN [eng |-> [e1 EXCEPT !.current_id = "climax"],
                       ret |-> RetNode(eng.nodes["climax"])]
                 ELSE [eng |-> e1, ret |-> RetNode(node)]

\* a funnel that starts the steps counter over when it forces the jump
funnel_resets_steps(eng) ==
    LET st == [eng.state EXCEPT
                  !.flags = Put(@, "steps", Get(@, "steps", 0) + 1)]
        e1 == [eng EXCEPT !.state = st]
    IN  IF eng.current_id \notin DOMAIN eng.nodes
        THEN [eng |-> [e1 EXCEPT !.current_id = "climax"],
              ret |-> RetNode(eng.nodes["climax"])]
        ELSE LET node == eng.nodes[eng.current_id]
             IN  IF /\ ~node.is_ending
                    /\ ~InTags("hidden", node.tags)
                    /\ Get(st.flags, "steps", 0) >= 4
                    /\ \E k \in DOMAIN st.flags : k # "steps"
                 THEN [eng |-> [e1 EXCEPT !.current_id = "climax",
                                          !.state.flags = Put(@, "steps", 0)],
                       ret |-> RetNode(eng.nodes["climax"])]
                 ELSE [eng |-> e1, ret |-> RetNode(node)]

\* a funnel that forces the jump one step early
funnel_after_three(eng) ==
    LET st == [eng.state EXCEPT
                  !.flags = Put(@, "steps", Get(@, "steps", 0) + 1)]
        e1 == [eng EXCEPT !.state = st]
    IN  IF eng.current_id \notin DOMAIN eng.nodes
        THEN [eng |-> [e1 EXCEPT !.current_id = "climax"],
              ret |-> RetNode(eng.nodes["climax"])]
        ELSE LET node == eng.nodes[eng.current_id]
             IN  IF /\ ~node.is_ending
                    /\ ~InTags("hidden", node.tags)
                    /\ Get(st.flags, "steps", 0) >= 3
                    /\ \E k \in DOMAIN st.flags : k # "steps"
                 THEN [eng |-> [e1 EXCEPT !.current_id = "climax"],
                       ret |-> RetNode(eng.nodes["climax"])]
                 ELSE [eng |-> e1, ret |-> RetNode(node)]

\* _maybe_funnel_to_climax without the safety fallback for a missing node
funnel_without_fallback(eng) ==
    LET st == [eng.state EXCEPT
                  !.flags = Put(@, "steps", Get(@, "steps", 0) + 1)]
        e1 == [eng EXCEPT !.state = st]
    IN  IF eng.current_id \notin DOMAIN eng.nodes
        THEN [eng |-> e1, ret |-> RetNode(eng.nodes["climax"])]
        ELSE LET node == eng.nodes[eng.current_id]
             IN  IF /\ ~node.is_ending
                    /\ ~InTags("hidden", node.tags)
                    /\ Get(st.flags, "steps", 0) >= 4
                    /\ \E k \in DOMAIN st.flags : k # "steps"
                 THEN [eng |-> [e1 EXCEPT !.current_id = "climax"],
                       ret |-> RetNode(eng.nodes["climax"])]
                 ELSE [eng |-> e1, ret |-> RetNode(node)]

_maybe_funnel_to_climax(eng) ==
    LET st == [eng.state EXCEPT
                  !.flags = Put(@, "steps", Get(@, "steps", 0) + 1)]
        e1 == [eng EXCEPT !.state = st]
    IN  IF eng.current_id \notin DOMAIN eng.nodes
        THEN [eng |-> [e1 EXCEPT !.current_id = "climax"],
              ret |-> RetNode(eng.nodes["climax"])]
        ELSE LET node == eng.nodes[eng.current_id]
             IN  IF /\ ~node.is_ending
                    /\ ~InTags("hidden", node.tags)
                    /\ Get(st.flags, "steps", 0) >= 4
                    /\ \E k \in DOMAIN st.flags : k # "steps"
                 THEN [eng |-> [e1 EXCEPT !.current_id = "climax"],
                       ret |-> RetNode(eng.nodes["climax"])]
                 ELSE [eng |-> e1, ret |-> RetNode(node)]

\* rewrite_ending without the lower-casing of the style
rewrite_ending_case_sensitive(eng, style) ==
    LET k == Strip(style)
        style_key == IF k \notin {StyleHopeful, StyleTragic, StyleTwist}
                     THEN StyleTwist ELSE k
    IN  [eng EXCEPT
            !.nodes = Put(@, EndingId(style_key),
                          generate_ending(eng.state, style_key)),
            !.current_id = EndingId(style_key)]

rewrite_ending(eng, style) ==
    LET k == Lower(Strip(style))
        style_key == IF k \notin {StyleHopeful, StyleTragic, StyleTwist}
                     THEN StyleTwist ELSE k
    IN  [eng EXCEPT
            !.nodes = Put(@, EndingId(style_key),
                          generate_ending(eng.state, style_key)),
            !.current_id = EndingId(style_key)]

\* _handle_command; new is the state prompt_for_seeds collects when the
\* head is restart; exit tells that SystemExit is raised
_handle_command(eng, cmd, new) ==
    LET parts == Split(cmd)
    IN  IF parts = <<>> THEN [eng |-> eng, exit |-> FALSE]
        ELSE LET head == parts[1]
                 tail == Tail(parts)
             IN  IF head = <<"h","e","l","p">> THEN [eng |-> eng, exit |-> FALSE]
                 ELSE IF head = <<"s","t","a","t","e">> THEN [eng |-> eng, exit |-> FALSE]
                 ELSE IF head = <<"i","n","v">> THEN [eng |-> eng, exit |-> FALSE]
                 ELSE IF head = <<"r","e","w","r","i","t","e">>
                      THEN [eng |-> rewrite_ending(eng,
                                IF tail # <<>> THEN tail[1] ELSE StyleTwist),
                            exit |-> FALSE]
                 ELSE IF head = <<"r","e","s","t","a","r","t">>
                      THEN [eng |-> restart_with(eng, new), exit |-> FALSE]
                 ELSE IF head = <<"s","e","e","d","s">> THEN [eng |-> eng, exit |-> FALSE]
                 ELSE IF head = <<"q","u","i","t">> THEN [eng |-> eng, exit |-> TRUE]
                 ELSE [eng |-> eng, exit |-> FALSE]

\* the generic choice lookup of step (lines 283..287)
TakeChoice(eng, node, key) ==
    LET next_id == node.choices[key][2]
        st      == _apply_side_effects(eng.state, node.node_id, key)
    IN  _maybe_funnel_to_climax(
            [eng EXCEPT !.state = st, !.current_id = next_id])

\* a lone colon taken for a line that is not a command
command_needs_text(user_input) ==
    StartsWith(user_input, <<":">>) /\ Len(user_input) > 1

\* line 268: the trimmed line is a command
IsCommand(user_input) == StartsWith(user_input, <<":">>)

\* the secret keyword compared without case folding
secret_case_sensitive(user_input) == user_input = SECRET_INPUT

\* line 272: the trimmed line is the secret keyword, in any letter case
IsSecret(user_input) == Lower(user_input) = SECRET_INPUT

\* lines 273..275: the secret keyword is honoured
SecretStep(eng) ==
    LET e1 == [eng EXCEPT
                  !.state.flags = Put(@, "secret", Get(@, "secret", 0) + 1),
                  !.current_id = "hidden_path"]
    IN  [eng |-> e1, ret |-> RetNode(e1.nodes[e1.current_id])]

\* line 277: choice A is entered at the node omen
IsOmenStudy(node, user_input) ==
    node.node_id = "omen" /\ Upper(user_input) = KeyA

\* the unlock asking for one study more
unlock_one_late(flags) == flags["studies"] > 2

\* line 279: the runes have been studied often enough
UnlockReached(flags) == flags["studies"] >= 2

\* a line that is not understood answered with the current node
rejected_returns_node(eng) ==
    [eng |-> eng, ret |-> RetNode(eng.nodes[eng.current_id])]

\* line 289: the line is not understood
Rejected(eng) == [eng |-> eng, ret |-> RetNone]

step(eng, raw_input, new) ==
    LET user_input == Strip(raw_input)
        node       == eng.nodes[eng.current_id]
    IN  IF IsCommand(user_input)
        THEN LET c == _handle_command(eng, Tail(user_input), new)
             IN  IF c.exit THEN [eng |-> c.eng, ret |-> RetExit]
                 ELSE [eng |-> c.eng,
                       ret |-> RetNode(c.eng.nodes[c.eng.current_id])]
        ELSE IF IsSecret(user_input) THEN SecretStep(eng)
        ELSE LET omenA == IsOmenStudy(node, user_input)
                 e2 == IF omenA
                       THEN [eng EXCEPT !.state.flags =
                                Put(@, "studies", Get(@, "studies", 0) + 1)]
                       ELSE eng
             IN  IF omenA /\ UnlockReached(e2.state.flags)
                 THEN LET e3 == [e2 EXCEPT !.current_id = "hidden_path"]
                      IN  [eng |-> e3, ret |-> RetNode(e3.nodes[e3.current_id])]
                 ELSE IF Upper(user_input) \in DOMAIN node.choices
                 THEN TakeChoice(e2, node, Upper(user_input))
                 ELSE Rejected(e2)

\* ------------------------------------------------------------------------
\* Inputs the model draws from
\* ------------------------------------------------------------------------

\* lines typed at the choice prompt
StepInputs ==
    { <<"A">>,
      <<"a">>,
      <<" ","b"," ">>,
      <<"C">>,
      <<"Z">>,
      <<>>,
      <<"w","h","i","s","p","e","r">>,
      <<" ","W","h","i","s","p","e","r"," ">>,
      <<":","h","e","l","p">>,
      <<":","r","e","w","r","i","t","e">>,
      <<":","r","e","w","r","i","t","e"," ","H","o","p","e","f","u","l">>,
      <<":","r","e","w","r","i","t","e"," ","b","o","g","u","s">>,
      <<":","r","e","s","t","a","r","t">>,
      <<":","q","u","i","t">> }

\* styles handed to rewrite_ending directly
RewriteStyles ==
    { <<"h","o","p","e","f","u","l">>,
      <<" ","T","R","A","G","I","C"," ">>,
      <<"b","o","g","u","s">>,
      <<>> }

\* the four lines answered to prompt_for_seeds
SeedAnswers ==
    { << <<>>, <<>>, <<>>, <<>> >>,
      << <<" ","M","y","s">>, <<"g","r","i","m">>, <<"B","o">>, <<"K","i","t"," ">> >> }

\* the salts of str hashing a process may run with
HashSalts == {0, 1}

\* what prompt_for_seeds returns, per hash salt and answered lines
CollectedSeeds ==
    [salt \in HashSalts |->
        [answers \in SeedAnswers |-> prompt_for_seeds(salt, answers)]]

\* a StoryState constructed with inventory and flags already filled in
PresetState ==
    StoryState(DefaultGenre, DefaultTone, DefaultProtagonist, DefaultCompanion,
               7, <<"lantern">>,
               [k \in {"studies", "steps"} |-> IF k = "studies" THEN 1 ELSE 2])


\* ------------------------------------------------------------------------
\* State
\* ------------------------------------------------------------------------

VARIABLES
    state,       \* StoryEngine.state: the installed StoryState
    nodes,       \* StoryEngine.nodes: node_id -> StoryNode
    current_id,  \* StoryEngine.current_id
    ret,         \* what the last call handed back
    exited,      \* SystemExit has been raised: the session is over
    hash_salt,   \* the salt of str hashing, fixed for the process
    last,        \* the last operation: its argument, branch and starting node
    installed,   \* the StoryState value handed to the last installation
    pure,        \* since installation: only choices, rejected input, no-op commands
    trail        \* while pure: nodes reached by the accepted choices since installation

vars == <<state, nodes, current_id, ret, exited, hash_salt, last, installed,
          pure, trail>>

Eng == Engine(state, nodes, current_id)

\* which branch of step a line takes on an engine
StepKind(eng, raw_input) ==
    LET user_input == Strip(raw_input)
        node       == eng.nodes[eng.current_id]
    IN  IF StartsWith(user_input, <<":">>) THEN "command"
        ELSE IF Lower(user_input) = SECRET_INPUT THEN "secret"
        ELSE IF /\ node.node_id = "omen"
                /\ Upper(user_input) = KeyA
                /\ Get(eng.state.flags, "studies", 0) + 1 >= 2 THEN "unlock"
        ELSE IF Upper(user_input) \in DOMAIN node.choices THEN "choice"
        ELSE "rejected"

\* the head of a command line, <<>> when there is none
CommandHead(raw_input) ==
    LET parts == Split(Tail(Strip(raw_input)))
    IN  IF parts = <<>> THEN <<>> ELSE parts[1]

IsRestart(raw_input) ==
    /\ StartsWith(Strip(raw_input), <<":">>)
    /\ CommandHead(raw_input) = <<"r","e","s","t","a","r","t">>

WithinBounds(st) ==
    /\ Get(st.flags, "steps", 0) <= MaxSteps
    /\ Get(st.flags, "secret", 0) <= MaxSecret

Install(eng) ==
    /\ state' = eng.state
    /\ nodes' = eng.nodes
    /\ current_id' = eng.current_id

\* main, lines 393..394: seeds are collected and the engine is constructed
Init ==
    /\ hash_salt \in HashSalts
    /\ \E answers \in SeedAnswers :
          LET st == CollectedSeeds[hash_salt][answers]
          IN  /\ state = st
              /\ nodes = NewEngine(st).nodes
              /\ current_id = NewEngine(st).current_id
              /\ installed = st
              /\ last = [op |-> "init", arg |-> <<>>, kind |-> "init",
                         from |-> "opening"]
    /\ ret = RetNone
    /\ exited = FALSE
    /\ pure = TRUE
    /\ trail = <<>>

\* engine.step(raw_input); answers are the lines prompt_for_seeds reads
\* when the line is the restart command
StepCall(raw_input, answers) ==
    /\ LET new  == CollectedSeeds[hash_salt][answers]
           kind == StepKind(Eng, raw_input)
           r    == step(Eng, raw_input, new)
           re   == kind = "command" /\ IsRestart(raw_input)
       IN  /\ re \/ answers = << <<>>, <<>>, <<>>, <<>> >>
           /\ WithinBounds(r.eng.state)
           /\ Install(r.eng)
           /\ ret' = r.ret
           /\ exited' = (r.ret = RetExit)
           /\ last' = [op |-> "step", arg |-> raw_input, kind |-> kind,
                       from |-> current_id]
           /\ installed' = IF re THEN new ELSE installed
           /\ pure' = IF re THEN TRUE
                      ELSE IF kind \in {"secret", "unlock"} THEN FALSE
                      ELSE pure /\ (kind # "command" \/ r.eng = Eng)
           /\ trail' = IF re \/ ~pure' THEN <<>>
                       ELSE IF kind = "choice"
                            THEN Append(trail, r.eng.current_id)
                            ELSE trail
    /\ UNCHANGED hash_salt

\* a caller of the engine stops calling once SystemExit has been raised
Step(raw_input, answers) ==
    /\ ~exited
    /\ StepCall(raw_input, answers)

\* engine.rewrite_ending(style)
RewriteEndingCall(style) ==
    /\ Install(rewrite_ending(Eng, style))
    /\ last' = [op |-> "rewrite_ending", arg |-> style, kind |-> "call",
                from |-> current_id]
    /\ ret' = RetNone
    /\ pure' = FALSE
    /\ trail' = <<>>
    /\ UNCHANGED <<exited, hash_salt, installed>>

\* engine.rewrite_ending(style) called directly
RewriteEnding(style) ==
    /\ ~exited
    /\ RewriteEndingCall(style)

\* engine.restart_with(new_state) called directly
RestartWith(new_state) ==
    /\ ~exited
    /\ Install(restart_with(Eng, new_state))
    /\ last' = [op |-> "restart_with", arg |-> <<>>, kind |-> "call",
                from |-> current_id]
    /\ installed' = new_state
    /\ pure' = TRUE
    /\ ret' = RetNone
    /\ trail' = <<>>
    /\ UNCHANGED <<exited, hash_salt>>

\* the states a caller hands to restart_with
NewStates ==
    {CollectedSeeds[hash_salt][answers] : answers \in SeedAnswers}
        \cup {PresetState}

Next ==
    \/ \E raw_input \in StepInputs, answers \in SeedAnswers :
          Step(raw_input, answers)
    \/ \E style \in RewriteStyles : RewriteEnding(style)
    \/ \E new_state \in NewStates : RestartWith(new_state)

Spec == Init /\ [][Next]_vars


\* ------------------------------------------------------------------------
\* Sessions driven through StoryEngine.step alone
\* ------------------------------------------------------------------------

\* further command lines: every head _handle_command knows, no head, heads
\* it does not know, the secret keyword and a choice key behind a colon
CommandInputs ==
    { <<":","s","t","a","t","e">>,
      <<" ",":"," ","i","n","v"," ">>,
      <<":","s","e","e","d","s">>,
      <<":">>,
      <<":","f","l","y">>,
      <<":","w","h","i","s","p","e","r">>,
      <<":","A">>,
      <<":","Q","U","I","T">> }

SessionInputs == StepInputs \cup CommandInputs

NextStep ==
    \E raw_input \in SessionInputs, answers \in SeedAnswers :
        Step(raw_input, answers)

SpecStep == Init /\ [][NextStep]_vars


\* ------------------------------------------------------------------------
\* The terminal loop of main
\* ------------------------------------------------------------------------

\* lines typed at either prompt of the loop
MainInputs ==
    { <<"A">>,
      <<" ","b"," ">>,
      <<"C">>,
      <<>>,
      <<" "," ">>,
      <<"w","h","i","s","p","e","r">>,
      <<":","h","e","l","p">>,
      <<"r","e","w","r","i","t","e"," ","H","o","p","e","f","u","l">>,
      <<":","r","e","w","r","i","t","e"," ","t","r","a","g","i","c">>,
      <<"r","e","s","t","a","r","t">>,
      <<":","r","e","s","t","a","r","t">>,
      <<" ","q","u","i","t"," ">>,
      <<":","q","u","i","t">> }

\* the styles main draws from when Enter is pressed at an ending
MainStyles == <<StyleHopeful, StyleTwist, StyleTragic>>

\* a loop that swallows SystemExit and reads the next line
loop_ignores_exit == TRUE

\* the loop runs until a step raises SystemExit, which breaks out of it
LoopRunning == ~exited

\* the line typed at an ending handed to step as it is
ending_line_raw(choice) == choice

\* what main hands to step for a non-empty line typed at an ending
EndingLine(choice) ==
    IF ~StartsWith(choice, <<":">>) THEN <<":">> \o choice ELSE choice

\* one turn of the while loop
MainTurn(line, answers, pick) ==
    /\ LoopRunning
    /\ IF nodes[current_id].is_ending
       THEN LET choice == Strip(line)
            IN  IF choice # <<>>
                THEN StepCall(EndingLine(choice), answers)
                ELSE /\ answers = << <<>>, <<>>, <<>>, <<>> >>
                     /\ RewriteEndingCall(MainStyles[pick])
       ELSE /\ pick = 1
            /\ StepCall(line, answers)

NextMain ==
    \E line \in MainInputs, answers \in SeedAnswers, pick \in 1..3 :
        MainTurn(line, answers, pick)

SpecMain == Init /\ [][NextMain]_vars


\* ------------------------------------------------------------------------
\* Properties
\* ------------------------------------------------------------------------

Endings == {"ending_hopeful", "ending_tragic", "ending_twist"}

\* the installed StoryState started with no flags and no inventory
Fresh == installed.inventory = <<>> /\ installed.flags = EmptyDict

\* the choice key a line stands for
KeyOf(raw_input) == Upper(Strip(raw_input))

\* the target the node from declares for the choice key of the last line
DeclaredTarget == nodes[last.from].choices[KeyOf(last.arg)][2]

\* the funnel condition as stated for a resulting node id
FunnelCondition(target) ==
    /\ Get(state.flags, "steps", 0) >= 4
    /\ ~(target \in DOMAIN nodes /\ nodes[target].is_ending)
    /\ ~(target \in DOMAIN nodes /\ InTags("hidden", nodes[target].tags))
    /\ \E k \in DOMAIN state.flags : k # "steps"

\* C1 (as claimed): after every accepted generic choice of a run of such
\* choices from a freshly installed state, the current node is the declared
\* target of the choice, or climax when the funnel condition holds.
C1_DeclaredEdgeOrFunnel ==
    (last.op = "step" /\ last.kind = "choice" /\ Fresh /\ pure) =>
        current_id = IF FunnelCondition(DeclaredTarget) THEN "climax"
                     ELSE DeclaredTarget

\* C2 (as claimed): every choice of every non-ending node targets a key of
\* the node mapping, and every ending node has no choices.
C2_TargetsAreNodes ==
    \A id \in DOMAIN nodes :
        IF nodes[id].is_ending
        THEN DOMAIN nodes[id].choices = {}
        ELSE \A k \in DOMAIN nodes[id].choices :
                nodes[id].choices[k][2] \in DOMAIN nodes

\* C3: after every completed operation current_id is a key of the node
\* mapping.
C3_CurrentIdIsKey == current_id \in DOMAIN nodes

\* C3 witness: a choice with a target outside the mapping has been taken
C3_Witness ==
    /\ last.op = "step" /\ last.kind = "choice"
    /\ DeclaredTarget \notin DOMAIN nodes
    /\ current_id \in DOMAIN nodes

\* the flags after adding one to the counter k
Bumped(flags, k) == Put(flags, k, Get(flags, k, 0) + 1)

\* C4: from any node, a line that trims to the secret keyword in any letter
\* case moves to hidden_path, returns that node, adds exactly 1 to flag
\* secret and leaves every other flag (steps included) and the inventory as
\* they were.
C4_SecretKeyword ==
    [][ (last'.op = "step" /\ Lower(Strip(last'.arg)) = SECRET_INPUT) =>
          /\ current_id' = "hidden_path"
          /\ ret' = RetNode(nodes["hidden_path"])
          /\ state'.flags = Bumped(state.flags, "secret")
          /\ state'.inventory = state.inventory
          /\ nodes' = nodes ]_vars

\* C4 witness: the keyword, padded and in mixed case, was entered at an
\* ending node
C4_Witness ==
    /\ last.op = "step" /\ last.from \in Endings
    /\ last.arg # SECRET_INPUT /\ Lower(Strip(last.arg)) = SECRET_INPUT
    /\ current_id = "hidden_path"
    /\ Get(state.flags, "secret", 0) = 1


\* the last line was entered at the node node_id and stands for the key
LineAt(node_id, key) ==
    /\ last'.op = "step"
    /\ current_id = node_id
    /\ KeyOf(last'.arg) = key

\* C5: from a fresh state, A at omen moves to study_runes and sets
\* studies = 1; A at omen with studies = 1 moves to hidden_path, sets
\* studies = 2, and changes neither steps, any other flag nor the inventory.
C5_OmenDoubleStudy ==
    [][ /\ (LineAt("omen", KeyA) /\ Fresh /\ "studies" \notin DOMAIN state.flags) =>
              /\ current_id' = "study_runes"
              /\ state'.flags["studies"] = 1
        /\ (LineAt("omen", KeyA) /\ Get(state.flags, "studies", 0) = 1) =>
              /\ current_id' = "hidden_path"
              /\ ret' = RetNode(nodes["hidden_path"])
              /\ state'.flags = Put(state.flags, "studies", 2)
              /\ state'.inventory = state.inventory ]_vars

\* C5 witness: the second study at omen has unlocked the hidden path
C5_Witness ==
    /\ last.op = "step" /\ last.from = "omen" /\ KeyOf(last.arg) = KeyA
    /\ current_id = "hidden_path"
    /\ Get(state.flags, "studies", 0) = 2

\* the trimmed line is no command, not the keyword and no choice of the node
NotUnderstood(raw_input, node) ==
    /\ ~StartsWith(Strip(raw_input), <<":">>)
    /\ Lower(Strip(raw_input)) # SECRET_INPUT
    /\ \A k \in DOMAIN node.choices : Upper(Strip(raw_input)) # k

\* C6: a line that is no command, not the secret keyword and no choice key
\* of the current node returns null and leaves current_id, the inventory,
\* the flags and the nodes as they were.
C6_RejectedInput ==
    [][ (last'.op = "step" /\ NotUnderstood(last'.arg, nodes[current_id])) =>
          /\ ret' = RetNone
          /\ current_id' = current_id
          /\ state' = state
          /\ nodes' = nodes ]_vars

\* C6 witness: the choice key A was rejected at an ending node
C6_Witness ==
    /\ last.op = "step" /\ last.arg = KeyA
    /\ current_id \in Endings
    /\ ret = RetNone

\* the item the table appends for the pair, <<>> when there is none
TableItem(node_id, key) ==
    IF node_id = "ally" /\ key = KeyA THEN <<"cryptic map">>
    ELSE IF node_id = "onward" /\ key = KeyA THEN <<"stone key">>
    ELSE <<>>

\* the flag the table sets to 1 for the pair, {} when there is none
TableFlag(node_id, key) ==
    IF node_id = "ally" /\ key = KeyA THEN {"map"}
    ELSE IF node_id = "onward" /\ key = KeyA THEN {"key"}
    ELSE IF node_id = "omen" /\ key = KeyC THEN {"reckless"}
    ELSE IF node_id = "onward" /\ key = KeyB THEN {"wounded"}
    ELSE {}

TableFlags == {"map", "key", "reckless", "wounded"}

\* C7: a taken choice appends exactly the item of the side-effect table and
\* sets exactly the table's flag to 1; every other step, the restart
\* command apart, leaves the inventory and the table's flags as they were.
C7_SideEffectTable ==
    [][ (last'.op = "step" /\ ~IsRestart(last'.arg)) =>
          LET taken == last'.kind = "choice"
              key   == KeyOf(last'.arg)
              item  == IF taken THEN TableItem(current_id, key) ELSE <<>>
              set   == IF taken THEN TableFlag(current_id, key) ELSE {}
          IN  /\ state'.inventory = state.inventory \o item
              /\ \A f \in TableFlags :
                    IF f \in set
                    THEN Get(state'.flags, f, 0) = 1
                    ELSE /\ (f \in DOMAIN state'.flags) = (f \in DOMAIN state.flags)
                         /\ Get(state'.flags, f, 0) = Get(state.flags, f, 0) ]_vars

\* C7 witness: (ally, A) has put the cryptic map into an empty inventory
C7_Witness ==
    /\ last.op = "step" /\ last.kind = "choice"
    /\ last.from = "ally" /\ KeyOf(last.arg) = KeyA
    /\ state.inventory = <<"cryptic map">>
    /\ Get(state.flags, "map", 0) = 1

\* C8: after 4 accepted generic choices from opening on a fresh state, none
\* of them reaching hidden_path or an ending and at least one flag besides
\* steps being set, the fourth resulting node is climax.
C8_FunnelAfterFour ==
    ( /\ Fresh /\ pure /\ Len(trail) >= 4
      /\ \A i \in 1..4 : trail[i] \notin Endings \cup {"hidden_path"}
      /\ \E k \in DOMAIN state.flags : k # "steps" )
    => trail[4] = "climax"

\* C8 witness: a fourth accepted choice on a fresh state, taken at onward
C8_Witness ==
    /\ Fresh /\ pure /\ Len(trail) = 4
    /\ last.op = "step" /\ last.kind = "choice" /\ last.from = "onward"
    /\ Get(state.flags, "steps", 0) = 4
    /\ current_id = "climax"

IsRewrite(raw_input) ==
    /\ StartsWith(Strip(raw_input), <<":">>)
    /\ CommandHead(raw_input) = <<"r","e","w","r","i","t","e">>

\* the style the rewrite command hands on
CommandStyle(raw_input) ==
    LET parts == Split(Tail(Strip(raw_input)))
    IN  IF Len(parts) >= 2 THEN parts[2] ELSE StyleTwist

\* the step is a rewrite_ending, called directly or by command
Rewrites ==
    \/ last'.op = "rewrite_ending"
    \/ last'.op = "step" /\ IsRewrite(last'.arg)

\* the style that call is given
RewrittenStyle ==
    IF last'.op = "rewrite_ending" THEN last'.arg
    ELSE CommandStyle(last'.arg)

\* C9: rewrite_ending with an unrecognised style does what
\* rewrite_ending("twist") does; with a recognised style it sets current_id
\* to ending_<style>; flags, inventory and the key set of the node mapping
\* stay as they were, as does every node but the rewritten one, whatever
\* the current node is.
C9_RewriteEnding ==
    [][ Rewrites =>
          LET k == Lower(Strip(RewrittenStyle))
          IN  /\ k = StyleHopeful => current_id' = "ending_hopeful"
              /\ k = StyleTragic => current_id' = "ending_tragic"
              /\ k = StyleTwist => current_id' = "ending_twist"
              /\ k \notin {StyleHopeful, StyleTragic, StyleTwist} =>
                    /\ current_id' = "ending_twist"
                    /\ nodes' = rewrite_ending(Eng, StyleTwist).nodes
              /\ state' = state
              /\ DOMAIN nodes' = DOMAIN nodes
              /\ \A id \in DOMAIN nodes :
                    id # current_id' => nodes'[id] = nodes[id] ]_vars

\* C9 witness: an unrecognised style was rewritten away from a node that is
\* no ending
C9_Witness ==
    /\ last.op = "rewrite_ending" /\ last.arg = <<"b","o","g","u","s">>
    /\ last.from \notin Endings
    /\ current_id = "ending_twist"

TenFixedIds ==
    {"opening", "omen", "study_runes", "ally", "onward", "hidden_path",
     "climax", "ending_hopeful", "ending_tragic", "ending_twist"}

\* C10: after restart_with(newState), called directly or by the restart
\* command, current_id is opening, the node mapping has exactly the ten
\* fixed ids, and inventory and flags are those of newState: empty for a
\* state collected by prompt_for_seeds.
C10_RestartWith ==
    [][ (\/ last'.op = "restart_with"
         \/ last'.op = "step" /\ IsRestart(last'.arg)) =>
          /\ current_id' = "opening"
          /\ DOMAIN nodes' = TenFixedIds
          /\ state' = installed'
          /\ (last'.op = "step" =>
                state'.inventory = <<>> /\ state'.flags = EmptyDict) ]_vars

\* C10 witness: a restart with a fresh state at climax, where flag steps was
\* set, has left no flag and no item
C10_Witness ==
    /\ last.op \in {"restart_with", "step"}
    /\ last.op = "step" => IsRestart(last.arg)
    /\ last.from = "climax"
    /\ current_id = "opening"
    /\ state.flags = EmptyDict /\ state.inventory = <<>>


\* the last line handed to step begins with a colon once trimmed
CommandLine(op) == op.op = "step" /\ StartsWith(Strip(op.arg), <<":">>)

HeadRewrite == <<"r","e","w","r","i","t","e">>
HeadRestart == <<"r","e","s","t","a","r","t">>
HeadQuit == <<"q","u","i","t">>

\* C11: a step whose trimmed line begins with a colon is taken as a command
\* and as nothing else.  Unless its head is rewrite, restart or quit, the
\* flags, the inventory, the node mapping and current_id stay as they were
\* and the current node is handed back; rewrite leaves flags and inventory
\* alone; only restart and rewrite ever change current_id.
C11_CommandsOnlyCommand ==
    [][ CommandLine(last') =>
          LET head == CommandHead(last'.arg)
          IN  /\ last'.kind = "command"
              /\ head \notin {HeadRewrite, HeadRestart, HeadQuit} =>
                    /\ state' = state
                    /\ nodes' = nodes
                    /\ current_id' = current_id
                    /\ ret' = RetNode(nodes[current_id])
              /\ head = HeadRewrite =>
                    /\ state' = state
                    /\ current_id' \in Endings
                    /\ ret' = RetNode(nodes'[current_id'])
              /\ current_id' # current_id =>
                    head \in {HeadRewrite, HeadRestart} ]_vars

\* the secret keyword behind a colon was typed at the omen: nothing moved
\* and the omen node came back
C11_Witness ==
    /\ last.op = "step"
    /\ last.arg = <<":","w","h","i","s","p","e","r">>
    /\ current_id = "omen"
    /\ last.from = current_id
    /\ Get(state.flags, "secret", 0) = 0
    /\ Get(state.flags, "steps", 0) <= 1
    /\ ret = RetNode(nodes[current_id])


\* the last line handed to step was the quit command
QuitLine(op) == CommandLine(op) /\ CommandHead(op.arg) = HeadQuit

\* C12: the quit command, at any node, ends the session at once with a
\* signal that is neither a node nor None: flags, inventory, node mapping
\* and current_id are left as they were, nothing else ends the session, and
\* once it has ended the terminal loop reads no line and takes no step.
C12_QuitEndsSession ==
    [][ /\ ~exited
        /\ QuitLine(last') =>
              /\ ret' = RetExit
              /\ ret' # RetNone /\ ret'.kind # "node"
              /\ exited'
              /\ state' = state
              /\ nodes' = nodes
              /\ current_id' = current_id
        /\ exited' => QuitLine(last') ]_vars

\* quit was entered at an ending the story had walked to, with an item
\* collected on the way, and the session is over
C12_Witness ==
    /\ exited
    /\ ret = RetExit
    /\ last.arg = <<":","q","u","i","t">>
    /\ last.from \in Endings
    /\ current_id = last.from
    /\ state.inventory # <<>>


\* the operation installs a StoryState: restart_with, directly or by command
Installs(op) ==
    \/ op.op = "restart_with"
    \/ op.op = "step" /\ IsRestart(op.arg)

\* the rule of step that may change flag k on the operation op
FlagRule(op, k) ==
    /\ op.op = "step"
    /\ \/ k = "secret" /\ op.kind = "secret"
       \/ /\ k = "studies" /\ op.kind \in {"choice", "unlock"}
          /\ op.from = "omen" /\ KeyOf(op.arg) = KeyA
       \/ /\ op.kind = "choice"
          /\ k \in TableFlag(op.from, KeyOf(op.arg))
       \/ k = "steps" /\ op.kind = "choice"

\* C13: between two installations every flag value is a non-negative
\* integer, no flag key is removed and no flag value decreases, whatever
\* step and rewrite_ending calls are made; a flag changes only under the
\* secret rule, the omen study rule, the side-effect table and the steps
\* increment of the funnel.
C13_FlagsMonotone ==
    /\ [](\A k \in DOMAIN state.flags : state.flags[k] \in Nat)
    /\ [][ ~Installs(last') =>
            /\ \A k \in DOMAIN state.flags :
                  /\ k \in DOMAIN state'.flags
                  /\ state'.flags[k] >= state.flags[k]
            /\ \A k \in DOMAIN state'.flags :
                  (k \notin DOMAIN state.flags
                      \/ state'.flags[k] # state.flags[k])
                  => FlagRule(last', k) ]_vars

\* two counters and a table flag have been raised since the installation,
\* the steps counter past the funnel's threshold
C13_Witness ==
    /\ Get(state.flags, "steps", 0) >= 4
    /\ Get(state.flags, "secret", 0) = 1
    /\ Get(state.flags, "studies", 0) = 1
    /\ "reckless" \in DOMAIN state.flags
    /\ last.op = "rewrite_ending"


\* C15: an accepted generic choice whose declared target is no key of the
\* node mapping still gets its side effects and exactly one more step
\* counted, then lands on climax and hands back the climax node, whatever
\* the steps counter and the other flags are.
C15_MissingTargetFallback ==
    [][ (last'.op = "step" /\ last'.kind = "choice") =>
          LET key    == KeyOf(last'.arg)
              target == nodes[current_id].choices[key][2]
              set    == TableFlag(current_id, key)
          IN  target \notin DOMAIN nodes =>
                /\ current_id' = "climax"
                /\ ret' = RetNode(nodes["climax"])
                /\ nodes' = nodes
                /\ state'.inventory =
                      state.inventory \o TableItem(current_id, key)
                /\ DOMAIN state'.flags =
                      DOMAIN state.flags \cup set \cup {"steps"}
                /\ \A k \in DOMAIN state'.flags :
                      state'.flags[k] =
                          IF k = "steps" THEN Get(state.flags, k, 0) + 1
                          ELSE IF k \in set THEN 1
                          ELSE state.flags[k] ]_vars

\* the second choice of a session, C at the omen, names touch_rune: flag
\* reckless is set, two steps are counted and the node is climax
C15_Witness ==
    /\ last.op = "step" /\ last.kind = "choice"
    /\ last.from = "omen" /\ KeyOf(last.arg) = KeyC
    /\ DeclaredTarget = "touch_rune"
    /\ state.flags = [k \in {"reckless", "steps"} |->
                         IF k = "steps" THEN 2 ELSE 1]
    /\ current_id = "climax"
    /\ ret = RetNode(nodes["climax"])


\* C16: in a session that starts fresh and is driven through step alone,
\* secret keyword, rewrite and restart commands included, the funnel never
\* overrides a declared edge: after an accepted generic choice whose
\* declared target is a key of the node mapping, the current node is that
\* target.
C16_DeclaredEdgeKept ==
    ( /\ last.op = "step" /\ last.kind = "choice"
      /\ DeclaredTarget \in DOMAIN nodes )
    => current_id = DeclaredTarget

\* the third choice of a session, B at study_runes with flag studies set,
\* has led to onward as declared
C16_Witness ==
    /\ last.op = "step" /\ last.kind = "choice"
    /\ last.from = "study_runes" /\ KeyOf(last.arg) = KeyB
    /\ Get(state.flags, "steps", 0) = 3
    /\ Get(state.flags, "studies", 0) = 1
    /\ DeclaredTarget = "onward"
    /\ current_id = "onward"


\* the step moves the story onto the omen node
EntersOmen ==
    current_id' = "omen" /\ last'.kind \notin {"rejected", "command"}

\* C17: in a session that starts fresh and is driven through step alone,
\* omen is entered at most once per installed StoryState: it is entered
\* only by the first accepted choice after an installation, from opening
\* with no flag set.  So flag studies never exceeds 1 and the second study
\* of the omen, which unlocks hidden_path, is never taken.
C17_OmenOnce ==
    /\ [](Get(state.flags, "studies", 0) <= 1 /\ last.kind # "unlock")
    /\ [][ EntersOmen =>
            /\ last'.kind = "choice"
            /\ current_id = "opening"
            /\ state.flags = EmptyDict
            /\ state'.flags = [k \in {"steps"} |-> 1] ]_vars

\* the omen has been studied once in this installation, which led on to
\* study_runes
C17_Witness ==
    /\ last.op = "step" /\ last.kind = "choice"
    /\ last.from = "omen" /\ KeyOf(last.arg) = KeyA
    /\ state.flags = [k \in {"studies", "steps"} |->
                         IF k = "steps" THEN 2 ELSE 1]
    /\ current_id = "study_runes"


\* C18: in a session that starts fresh and is driven through step alone,
\* the inventory never holds more than one item between restarts: the two
\* item-granting pairs (ally, A) and (onward, A) fire at most once each and
\* never both, so the cryptic map and the stone key, and the flags map and
\* key, are never held together and no item is held twice.
C18_OneItemAtMost ==
    /\ Len(state.inventory) <= 1
    /\ state.inventory \in {<<>>, <<"cryptic map">>, <<"stone key">>}
    /\ (state.inventory = <<"cryptic map">>) = ("map" \in DOMAIN state.flags)
    /\ (state.inventory = <<"stone key">>) = ("key" \in DOMAIN state.flags)
    /\ ~("map" \in DOMAIN state.flags /\ "key" \in DOMAIN state.flags)

\* A at onward has granted the stone key, the only item held
C18_Witness ==
    /\ last.op = "step" /\ last.kind = "choice"
    /\ last.from = "onward" /\ KeyOf(last.arg) = KeyA
    /\ state.inventory = <<"stone key">>
    /\ Get(state.flags, "key", 0) = 1
    /\ "map" \notin DOMAIN state.flags


\* C19: from opening on a fresh state, a run of accepted generic choices is
\* at an ending after at most 5 of them: every one is counted and moves to
\* a node not visited before, a node that is no ending always offers a
\* choice to go on with, an ending offers none and so is the last node of
\* the run, and the fifth choice, if there is one, arrives at an ending.
C19_EndingWithinFive ==
    (Fresh /\ pure) =>
        /\ Len(trail) <= 5
        /\ Len(trail) = Get(state.flags, "steps", 0)
        /\ \A i \in 1..Len(trail) :
              /\ trail[i] # "opening"
              /\ trail[i] \in Endings => i = Len(trail)
              /\ \A j \in 1..Len(trail) : trail[i] = trail[j] => i = j
        /\ current_id = IF trail = <<>> THEN "opening" ELSE trail[Len(trail)]
        /\ Len(trail) = 5 => current_id \in Endings
        /\ DOMAIN nodes[current_id].choices =
              IF current_id \in Endings THEN {} ELSE {KeyA, KeyB, KeyC}

\* a longest run: five choices by way of hidden_path and climax, and a
\* sixth line that an ending does not accept
C19_Witness ==
    /\ Fresh /\ pure
    /\ Len(trail) = 5
    /\ trail[3] = "hidden_path" /\ trail[4] = "climax"
    /\ current_id \in Endings
    /\ last.op = "step" /\ last.kind = "rejected"
    /\ KeyOf(last.arg) = KeyA


====
